---- MODULE Spec2Model ----
(***************************************************************************)
(* Model of mlem's location resolution and metadata discovery:             *)
(*   mlem/core/meta_io.py   get_fs, get_path_by_fs_path,                   *)
(*                          path_split_postfix, get_path_by_repo_path_rev, *)
(*                          get_meta_path                                  *)
(*   mlem/core/metadata.py  find_meta_location                             *)
(*                                                                         *)
(* Python strings are sequences of one-character strings, so that prefix,  *)
(* substring, split and join are computed character by character, the way  *)
(* str.startswith, `in`, str.split and os.path.join compute them.          *)
(***************************************************************************)
EXTENDS Integers, Sequences, FiniteSets, TLC

VARIABLES
    pc,        \* position of the modelled call sequence
    location,  \* [path, repo]: the Location handed to find_meta_location
    fs,        \* backend state: kind of every probed path
    registry,  \* outcome of the registry lookup (find_object) on this backend
    res,       \* outcome of get_meta_path(location.fullpath, fs)
    res2,      \* outcome of get_meta_path applied to its own result
    loc,       \* outcome of find_meta_location(location)
    inp,       \* input of the URI operations (resolve / reconstruct / compose)
    out        \* their outcome

vars == <<pc, location, fs, registry, res, res2, loc, inp, out>>

\* Python's None.
None == <<"None">>

\* Placeholder of a variable a specification does not use.
Null == <<"null">>

-----------------------------------------------------------------------------
(* Bounds *)

\* Largest number of path segments of a uri given to get_meta_path.
MaxDepth == 2

-----------------------------------------------------------------------------
(* String constants *)

SLASH == "/"

\* META_FILE_NAME = "mlem.yaml"
META_FILE_NAME == <<"m", "l", "e", "m", ".", "y", "a", "m", "l">>

\* MLEM_EXT = ".mlem.yaml"
MLEM_EXT == <<".", "m", "l", "e", "m", ".", "y", "a", "m", "l">>

\* MLEM_DIR = ".mlem" (mlem.utils.root)
MLEM_DIR == <<".", "m", "l", "e", "m">>

-----------------------------------------------------------------------------
(* Python string and path primitives *)

\* s.startswith(p)
StartsWith(s, p) == Len(p) <= Len(s) /\ SubSeq(s, 1, Len(p)) = p

\* s.endswith(p)
EndsWith(s, p) == Len(p) <= Len(s) /\ SubSeq(s, Len(s) - Len(p) + 1, Len(s)) = p

\* sub in s
Contains(s, sub) ==
    \E i \in 0..(Len(s) - Len(sub)) : SubSeq(s, i + 1, i + Len(sub)) = sub

\* s.split("/"): the segments between slashes; "".split("/") is [""].
RECURSIVE Split(_)
Split(s) ==
    IF \A i \in 1..Len(s) : s[i] /= SLASH
    THEN <<s>>
    ELSE LET i == CHOOSE k \in 1..Len(s) :
                      s[k] = SLASH /\ \A j \in 1..(k - 1) : s[j] /= SLASH
         IN  <<SubSeq(s, 1, i - 1)>> \o Split(SubSeq(s, i + 1, Len(s)))

\* "/".join(parts)
RECURSIVE Join(_)
Join(parts) ==
    IF Len(parts) = 0 THEN <<>>
    ELSE IF Len(parts) = 1 THEN parts[1]
    ELSE parts[1] \o <<SLASH>> \o Join(Tail(parts))

\* os.path.join(a, b) on posix: an absolute b discards a; a separator is
\* inserted unless a is empty or already ends with one.
os_path_join(a, b) ==
    IF StartsWith(b, <<SLASH>>) THEN b
    ELSE IF Len(a) = 0 \/ EndsWith(a, <<SLASH>>) THEN a \o b
    ELSE a \o <<SLASH>> \o b

\* os.path.join(p1, p2, ..., pn)
RECURSIVE os_path_join_all(_)
os_path_join_all(parts) ==
    IF Len(parts) = 1 THEN parts[1]
    ELSE os_path_join(os_path_join_all(SubSeq(parts, 1, Len(parts) - 1)),
                      parts[Len(parts)])

\* os.path.basename(p): what follows the last slash.
basename(p) == LET segs == Split(p) IN segs[Len(segs)]

-----------------------------------------------------------------------------
(* Backend capability set *)

Kinds == {"none", "file", "dir"}

\* Paths outside the backend's recorded entries do not exist.
KindOf(f, p) == IF p \in DOMAIN f THEN f[p] ELSE "none"

isfile(f, p) == KindOf(f, p) = "file"
isdir(f, p) == KindOf(f, p) = "dir"
exists(f, p) == KindOf(f, p) /= "none"

-----------------------------------------------------------------------------
(* Metadata path discovery *)

Ok(p) == [kind |-> "ok", path |-> p]
Raise(e) == [kind |-> e, path |-> <<>>]

\* get_meta_path with the two middle rules swapped.
get_meta_path_SuffixFirst(uri, f) ==
    IF basename(uri) = META_FILE_NAME /\ isfile(f, uri) THEN Ok(uri)
    ELSE IF isfile(f, uri \o MLEM_EXT) THEN Ok(uri \o MLEM_EXT)
    ELSE IF isdir(f, uri) /\ isfile(f, os_path_join(uri, META_FILE_NAME))
    THEN Ok(os_path_join(uri, META_FILE_NAME))
    ELSE IF Contains(uri, MLEM_DIR) /\ isfile(f, uri) THEN Ok(uri)
    ELSE IF exists(f, uri) THEN Raise("Exception")
    ELSE Raise("FileNotFoundError")

\* get_meta_path with the two final raises swapped.
get_meta_path_SwappedErrors(uri, f) ==
    IF basename(uri) = META_FILE_NAME /\ isfile(f, uri) THEN Ok(uri)
    ELSE IF isdir(f, uri) /\ isfile(f, os_path_join(uri, META_FILE_NAME))
    THEN Ok(os_path_join(uri, META_FILE_NAME))
    ELSE IF isfile(f, uri \o MLEM_EXT) THEN Ok(uri \o MLEM_EXT)
    ELSE IF Contains(uri, MLEM_DIR) /\ isfile(f, uri) THEN Ok(uri)
    ELSE IF exists(f, uri) THEN Raise("FileNotFoundError")
    ELSE Raise("Exception")

\* get_meta_path whose second rule forgets to test the joined path.
get_meta_path_DirUnchecked(uri, f) ==
    IF basename(uri) = META_FILE_NAME /\ isfile(f, uri) THEN Ok(uri)
    ELSE IF isdir(f, uri) THEN Ok(os_path_join(uri, META_FILE_NAME))
    ELSE IF isfile(f, uri \o MLEM_EXT) THEN Ok(uri \o MLEM_EXT)
    ELSE IF Contains(uri, MLEM_DIR) /\ isfile(f, uri) THEN Ok(uri)
    ELSE IF exists(f, uri) THEN Raise("Exception")
    ELSE Raise("FileNotFoundError")

\* get_meta_path without its fourth rule.
get_meta_path_NoRegistryRule(uri, f) ==
    IF basename(uri) = META_FILE_NAME /\ isfile(f, uri) THEN Ok(uri)
    ELSE IF isdir(f, uri) /\ isfile(f, os_path_join(uri, META_FILE_NAME))
    THEN Ok(os_path_join(uri, META_FILE_NAME))
    ELSE IF isfile(f, uri \o MLEM_EXT) THEN Ok(uri \o MLEM_EXT)
    ELSE IF exists(f, uri) THEN Raise("Exception")
    ELSE Raise("FileNotFoundError")

\* get_meta_path(uri, fs)
get_meta_path(uri, f) ==
    IF basename(uri) = META_FILE_NAME /\ isfile(f, uri) THEN Ok(uri)
    ELSE IF isdir(f, uri) /\ isfile(f, os_path_join(uri, META_FILE_NAME))
    THEN Ok(os_path_join(uri, META_FILE_NAME))
    ELSE IF isfile(f, uri \o MLEM_EXT) THEN Ok(uri \o MLEM_EXT)
    ELSE IF Contains(uri, MLEM_DIR) /\ isfile(f, uri) THEN Ok(uri)
    ELSE IF exists(f, uri) THEN Raise("Exception")
    ELSE Raise("FileNotFoundError")

-----------------------------------------------------------------------------
(* Location and the composed discovery procedure *)

\* Location.fullpath: the path below the repo root, when there is one.
fullpath(l) ==
    IF l.repo = None THEN l.path ELSE os_path_join(l.repo, l.path)

\* posixpath.relpath(path, start) for paths without "." and ".." segments:
\* drop the common leading segments, climb out of what is left of start.
relpath(path, start) ==
    LET NonEmpty(x) == Len(x) > 0
        pl == SelectSeq(Split(path), NonEmpty)
        sl == SelectSeq(Split(start), NonEmpty)
        Common(k) == k <= Len(pl) /\ k <= Len(sl)
                     /\ \A j \in 1..k : pl[j] = sl[j]
        i == CHOOSE k \in 0..Len(sl) : Common(k) /\ ~Common(k + 1)
        rel == [j \in 1..(Len(sl) - i) |-> <<".", ".">>]
               \o SubSeq(pl, i + 1, Len(pl))
    IN  IF Len(rel) = 0 THEN <<".">> ELSE Join(rel)

\* Where the registry keeps the object registered under location.path.
registry_path(l) ==
    os_path_join_all(<<IF l.repo = None THEN <<>> ELSE l.repo,
                       MLEM_DIR, l.path \o MLEM_EXT>>)

\* find_object(path, fs, repo): the registered file, or ValueError when the
\* registry holds nothing under that name.
find_object(l, reg) ==
    IF reg = None THEN Raise("ValueError") ELSE Ok(reg)

\* The tail of find_meta_location: make the path repo-relative and
\* location.update_path(path).
located(l, path, called) ==
    [kind |-> "ok",
     path |-> IF l.repo /= None THEN relpath(path, l.repo) ELSE path,
     repo |-> l.repo,
     find_object_called |-> called]

failed(l, e, called) ==
    [kind |-> e, path |-> <<>>, repo |-> l.repo, find_object_called |-> called]

\* find_meta_location catching every exception of the direct discovery.
find_meta_location_CatchAll(l, f, reg) ==
    LET direct == get_meta_path(fullpath(l), f)
    IN  IF direct.kind = "ok" THEN located(l, direct.path, FALSE)
        ELSE LET found == find_object(l, reg)
             IN  IF found.kind = "ValueError"
                 THEN failed(l, "MlemObjectNotFound", TRUE)
                 ELSE located(l, found.path, TRUE)

\* find_meta_location(location)
find_meta_location(l, f, reg) ==
    LET direct == get_meta_path(fullpath(l), f)
    IN  IF direct.kind = "ok" THEN located(l, direct.path, FALSE)
        ELSE IF direct.kind = "FileNotFoundError"
        THEN LET found == find_object(l, reg)
             IN  IF found.kind = "ValueError"
                 THEN failed(l, "MlemObjectNotFound", TRUE)
                 ELSE located(l, found.path, TRUE)
        ELSE failed(l, direct.kind, FALSE)

-----------------------------------------------------------------------------
(* Inputs of the discovery specification *)

\* Segment names: a plain name, the metadata file name, the registry
\* directory name, and a name that carries the metadata suffix.
Names == {<<"a">>, META_FILE_NAME, MLEM_DIR, <<"a">> \o MLEM_EXT}

\* Normalised relative paths of exactly n segments.
RECURSIVE PathsOfDepth(_)
PathsOfDepth(n) ==
    IF n = 1 THEN Names
    ELSE {os_path_join(p, s) : p \in PathsOfDepth(n - 1), s \in Names}

Uris == UNION {PathsOfDepth(n) : n \in 1..MaxDepth}

Repos == {None, <<"r">>}

\* The paths the discovery of u, and of its results, asks the backend about.
Probes(u) ==
    {u, os_path_join(u, META_FILE_NAME), u \o MLEM_EXT, u \o MLEM_EXT \o MLEM_EXT}

\* Backend states over these paths: an entry below u makes u a directory.
Backends(u) ==
    {f \in [Probes(u) -> Kinds] :
        f[os_path_join(u, META_FILE_NAME)] /= "none" => f[u] = "dir"}

-----------------------------------------------------------------------------
(* Discovery specification *)

InitDiscover ==
    /\ pc = "start"
    /\ location \in [path : Uris, repo : Repos]
    /\ fs \in Backends(fullpath(location))
    /\ registry \in {None, registry_path(location)}
    /\ res = Null
    /\ res2 = Null
    /\ loc = Null
    /\ inp = Null
    /\ out = Null

\* path = get_meta_path(uri=location.fullpath, fs=location.fs)
Discover ==
    /\ pc = "start"
    /\ res' = get_meta_path(fullpath(location), fs)
    /\ pc' = "discovered"
    /\ UNCHANGED <<location, fs, registry, res2, loc, inp, out>>

\* get_meta_path applied to the path it returned, on the unchanged backend.
Rediscover ==
    /\ pc = "discovered"
    /\ res.kind = "ok"
    /\ res2' = get_meta_path(res.path, fs)
    /\ pc' = "rediscovered"
    /\ UNCHANGED <<location, fs, registry, res, loc, inp, out>>

\* find_meta_location(location)
FindMetaLocation ==
    /\ pc = "start"
    /\ loc' = find_meta_location(location, fs, registry)
    /\ pc' = "located"
    /\ UNCHANGED <<location, fs, registry, res, res2, inp, out>>

NextDiscover == Discover \/ Rediscover \/ FindMetaLocation

SpecDiscover == InitDiscover /\ [][NextDiscover]_vars

-----------------------------------------------------------------------------
(* Backend resolution *)

SCHEME_SEP == <<":", "/", "/">>

\* "https://github.com"
HTTPS_GITHUB == <<"h", "t", "t", "p", "s", ":", "/", "/", "g", "i", "t", "h", "u", "b", ".", "c", "o", "m">>

P_github == <<"g", "i", "t", "h", "u", "b">>
P_file == <<"f", "i", "l", "e">>
P_s3 == <<"s", "3">>
P_s3a == <<"s", "3", "a">>
TREE == <<"t", "r", "e", "e">>

\* The branch a hosted-repo backend built without a revision points at.
DefaultBranch == <<"m", "a", "i", "n">>

\* The working directory a local backend makes relative paths absolute with.
Cwd == <<"/", "w">>

\* fs.protocol is one string or a tuple of strings.
Single(p) == [tuple |-> FALSE, names |-> <<p>>]
Tuple(ps) == [tuple |-> TRUE, names |-> ps]

LocalFileSystem ==
    [cls |-> "LocalFileSystem", protocol |-> Single(P_file),
     org |-> None, repo |-> None, root |-> None]

S3FileSystem ==
    [cls |-> "S3FileSystem", protocol |-> Tuple(<<P_s3, P_s3a>>),
     org |-> None, repo |-> None, root |-> None]

\* No backend: the slot of an input or outcome that carries none.
NoFileSystem ==
    [cls |-> "none", protocol |-> Single(<<>>),
     org |-> None, repo |-> None, root |-> None]

GithubFileSystem(org, repo, sha) ==
    [cls |-> "GithubFileSystem", protocol |-> Single(P_github),
     org |-> org, repo |-> repo,
     root |-> IF sha = None THEN DefaultBranch ELSE sha]

\* The position of the first occurrence of sub in s, 0 when there is none.
Find(s, sub) ==
    IF Contains(s, sub)
    THEN CHOOSE i \in 1..Len(s) :
             /\ i + Len(sub) - 1 <= Len(s)
             /\ SubSeq(s, i, i + Len(sub) - 1) = sub
             /\ \A j \in 1..(i - 1) : SubSeq(s, j, j + Len(sub) - 1) /= sub
    ELSE 0

\* s.rstrip("/")
RECURSIVE rstrip(_)
rstrip(s) ==
    IF Len(s) > 0 /\ s[Len(s)] = SLASH THEN rstrip(SubSeq(s, 1, Len(s) - 1))
    ELSE s

\* get_github_kwargs(uri): org, repo, revision and path of a browse URL
\* https://github.com/<org>/<repo>[/tree/<sha>][/<path>].
get_github_kwargs(uri) ==
    LET NonEmpty(x) == Len(x) > 0
        parts == SelectSeq(
                     Split(SubSeq(uri, Len(HTTPS_GITHUB) + 1, Len(uri))),
                     NonEmpty)
        rest == SubSeq(parts, 3, Len(parts))
    IN  IF Len(rest) >= 2 /\ rest[1] = TREE
        THEN [org |-> parts[1], repo |-> parts[2], sha |-> rest[2],
              path |-> Join(SubSeq(rest, 3, Len(rest)))]
        ELSE [org |-> parts[1], repo |-> parts[2], sha |-> None,
              path |-> Join(rest)]

NoOptions == [org |-> None, repo |-> None, sha |-> None]

\* fsspec.get_fs_token_paths(uri, protocol=protocol, storage_options=...):
\* the protocol is the hint, else the uri's scheme, else "file"; the backend
\* class of that protocol is built from the options and strips its own
\* scheme from the uri.
get_fs_token_paths(uri, protocol, options) ==
    LET at == Find(uri, SCHEME_SEP)
        scheme == IF at = 0 THEN None ELSE SubSeq(uri, 1, at - 1)
        proto == IF protocol /= None THEN protocol
                 ELSE IF scheme /= None THEN scheme
                 ELSE P_file
        bare == IF scheme = proto
                THEN SubSeq(uri, at + Len(SCHEME_SEP), Len(uri))
                ELSE uri
    IN  IF proto = P_file
        THEN [kind |-> "ok", fs |-> LocalFileSystem,
              path |-> IF StartsWith(bare, <<SLASH>>)
                       THEN (IF Len(rstrip(bare)) = 0 THEN <<SLASH>>
                             ELSE rstrip(bare))
                       ELSE rstrip(Cwd \o <<SLASH>> \o bare)]
        ELSE IF proto \in {P_s3, P_s3a}
        THEN [kind |-> "ok", fs |-> S3FileSystem,
              path |-> rstrip(IF scheme \in {P_s3, P_s3a}
                              THEN SubSeq(uri, at + Len(SCHEME_SEP), Len(uri))
                              ELSE uri)]
        ELSE IF proto = P_github
        THEN [kind |-> "ok",
              fs |-> GithubFileSystem(options.org, options.repo, options.sha),
              path |-> rstrip(bare)]
        ELSE [kind |-> "ValueError", fs |-> NoFileSystem, path |-> <<>>]

\* get_fs(uri, protocol): the credentials read from the environment do not
\* take part in which backend and path come out and are left out.
get_fs(uri, protocol) ==
    IF protocol = None /\ StartsWith(uri, HTTPS_GITHUB)
    THEN LET github_kwargs == get_github_kwargs(uri)
         IN  get_fs_token_paths(
                 github_kwargs.path, P_github,
                 [org |-> github_kwargs.org, repo |-> github_kwargs.repo,
                  sha |-> github_kwargs.sha])
    ELSE get_fs_token_paths(uri, protocol, NoOptions)

-----------------------------------------------------------------------------
(* Canonical URI reconstruction *)

\* get_path_by_fs_path(fs, path)
get_path_by_fs_path(f, path) ==
    IF f.cls = "GithubFileSystem"
    THEN HTTPS_GITHUB \o <<SLASH>> \o f.org \o <<SLASH>> \o f.repo
         \o <<SLASH>> \o TREE \o <<SLASH>> \o f.root \o <<SLASH>> \o path
    ELSE IF f.protocol.tuple
            /\ \E i \in 1..Len(f.protocol.names) :
                   StartsWith(path, f.protocol.names[i])
    THEN path
    ELSE LET protocol == f.protocol.names[1]
         IN  IF StartsWith(path, protocol \o SCHEME_SEP) THEN path
             ELSE protocol \o SCHEME_SEP \o path

-----------------------------------------------------------------------------
(* Repo-path composition *)

\* path_split_postfix(path, postfix)
path_split_postfix(path, postfix) ==
    LET segs == Split(path)
    IN  Join(SubSeq(segs, 1, Len(segs) - Len(Split(postfix))))

NoKwargs == [k \in {} |-> None]

\* get_path_by_repo_path_rev composing every repo the hosted-repo way.
get_path_by_repo_path_rev_RevInUri(repo, path, rev) ==
    IF rev = None
    THEN [uri |-> os_path_join(repo, path), kwargs |-> NoKwargs]
    ELSE [uri |-> os_path_join_all(<<repo, TREE, rev, path>>),
          kwargs |-> NoKwargs]

\* get_path_by_repo_path_rev(repo, path, rev)
get_path_by_repo_path_rev(repo, path, rev) ==
    IF StartsWith(repo, HTTPS_GITHUB)
    THEN IF rev = None
         THEN [uri |-> os_path_join(repo, path), kwargs |-> NoKwargs]
         ELSE LET root_path == get_fs(repo, None).path
              IN  [uri |-> os_path_join_all(
                               <<path_split_postfix(repo, root_path),
                                 TREE, rev, root_path, path>>),
                   kwargs |-> NoKwargs]
    ELSE [uri |-> os_path_join(repo, path), kwargs |-> [rev |-> rev]]

-----------------------------------------------------------------------------
(* Inputs of the URI specification *)

\* Segment names of the paths below a backend or repo root.
UriNames == {<<"k">>, <<"d">>}

RECURSIVE BodiesOfDepth(_)
BodiesOfDepth(n) ==
    IF n = 1 THEN UriNames
    ELSE {os_path_join(p, s) : p \in BodiesOfDepth(n - 1), s \in UriNames}

Bodies == UNION {BodiesOfDepth(n) : n \in 1..MaxDepth}

\* Bucket names of the object store; a name may begin like a protocol.
Buckets == {<<"b">>, <<"s", "3", "b">>}

Revs == {<<"v">>, <<"m">>}

\* "https://github.com/o/r"
BareRepoUrl == HTTPS_GITHUB \o <<"/", "o", "/", "r">>

\* Well-formed canonical URIs: local paths, object-store URIs, browse URLs.
WellFormedUris ==
    Bodies
    \cup {<<SLASH>> \o b : b \in Bodies}
    \cup {P_file \o SCHEME_SEP \o <<SLASH>> \o b : b \in Bodies}
    \cup {p \o SCHEME_SEP \o os_path_join(bucket, b) :
              p \in {P_s3, P_s3a}, bucket \in Buckets, b \in Bodies}
    \cup {os_path_join_all(<<BareRepoUrl, TREE, r, b>>) :
              r \in Revs, b \in Bodies}
    \cup {os_path_join(BareRepoUrl, b) : b \in Bodies}
    \cup {BareRepoUrl}

\* Paths handed to get_path_by_fs_path: bare, absolute, already qualified,
\* or beginning with the letters of a protocol name.
PathPrefixes ==
    {<<>>, <<SLASH>>, P_s3, P_file,
     P_s3 \o SCHEME_SEP, P_s3a \o SCHEME_SEP, P_file \o SCHEME_SEP}

QualifyPaths == {pre \o b : pre \in PathPrefixes, b \in Bodies}

GenericBackends == {LocalFileSystem, S3FileSystem}

\* Repository roots: browse URLs with and without a root path, a local
\* clone and an object-store location.
ComposeRepos ==
    {BareRepoUrl,
     os_path_join(BareRepoUrl, <<"d">>),
     os_path_join_all(<<BareRepoUrl, TREE, <<"v">>, <<"d">>>>),
     Cwd \o <<"/", "r">>,
     P_s3 \o SCHEME_SEP \o <<"b", "/", "r">>}

Input(op, uri, f, path, repo, rev) ==
    [op |-> op, uri |-> uri, fs |-> f, path |-> path, repo |-> repo, rev |-> rev]

UriInputs ==
    {Input("roundtrip", u, NoFileSystem, Null, Null, Null) : u \in WellFormedUris}
    \cup {Input("to_uri", Null, f, p, Null, Null) :
              f \in GenericBackends, p \in QualifyPaths}
    \cup {Input("compose", Null, NoFileSystem, p, r, v) :
              p \in Bodies, r \in ComposeRepos, v \in Revs \cup {None}}

-----------------------------------------------------------------------------
(* URI specification *)

InitUri ==
    /\ pc = "start"
    /\ inp \in UriInputs
    /\ out = [d |-> Null, uri |-> Null, d2 |-> Null, composed |-> Null]
    /\ location = Null
    /\ fs = Null
    /\ registry = Null
    /\ res = Null
    /\ res2 = Null
    /\ loc = Null

\* fs, path = get_fs(uri)
Resolve ==
    /\ pc = "start"
    /\ inp.op = "roundtrip"
    /\ out' = [out EXCEPT !.d = get_fs(inp.uri, None)]
    /\ pc' = "resolved"
    /\ UNCHANGED <<location, fs, registry, res, res2, loc, inp>>

\* uri = get_path_by_fs_path(fs, path) of the resolved pair
Reconstruct ==
    /\ pc = "resolved"
    /\ out.d.kind = "ok"
    /\ out' = [out EXCEPT !.uri = get_path_by_fs_path(out.d.fs, out.d.path)]
    /\ pc' = "reconstructed"
    /\ UNCHANGED <<location, fs, registry, res, res2, loc, inp>>

\* get_fs of the reconstructed uri, without a protocol hint
ResolveAgain ==
    /\ pc = "reconstructed"
    /\ out' = [out EXCEPT !.d2 = get_fs(out.uri, None)]
    /\ pc' = "reresolved"
    /\ UNCHANGED <<location, fs, registry, res, res2, loc, inp>>

\* get_path_by_fs_path(fs, path) of a generic backend and any path
Qualify ==
    /\ pc = "start"
    /\ inp.op = "to_uri"
    /\ out' = [out EXCEPT !.uri = get_path_by_fs_path(inp.fs, inp.path)]
    /\ pc' = "qualified"
    /\ UNCHANGED <<location, fs, registry, res, res2, loc, inp>>

\* get_path_by_repo_path_rev(repo, path, rev)
Compose ==
    /\ pc = "start"
    /\ inp.op = "compose"
    /\ out' = [out EXCEPT
                 !.composed = get_path_by_repo_path_rev(inp.repo, inp.path, inp.rev)]
    /\ pc' = "composed"
    /\ UNCHANGED <<location, fs, registry, res, res2, loc, inp>>

NextUri == Resolve \/ Reconstruct \/ ResolveAgain \/ Qualify \/ Compose

SpecUri == InitUri /\ [][NextUri]_vars

-----------------------------------------------------------------------------
(* Properties of the discovery *)

\* The uri the discovery is asked about.
Target == fullpath(location)

\* uri/mlem.yaml and uri.mlem.yaml
InsideTarget == Target \o <<SLASH>> \o META_FILE_NAME
SuffixedTarget == Target \o MLEM_EXT

\* The rules as the specification words them.
Rule1 == LET segs == Split(Target)
         IN  segs[Len(segs)] = META_FILE_NAME /\ isfile(fs, Target)
Rule2 == isdir(fs, Target) /\ isfile(fs, InsideTarget)
Rule3 == isfile(fs, SuffixedTarget)

\* The registry name is a whole segment of the uri, and the uri is a file.
RegistrySegmentRule ==
    /\ \E i \in 1..Len(Split(Target)) : Split(Target)[i] = MLEM_DIR
    /\ isfile(fs, Target)

\* The registry name occurs somewhere in the uri, and the uri is a file.
RegistrySubstringRule == Contains(Target, MLEM_DIR) /\ isfile(fs, Target)

\* C1: discovery returns the result of the lowest-numbered matching rule:
\* rule 1 gives the uri, else rule 2 gives uri/mlem.yaml, else rule 3 gives
\* uri.mlem.yaml, and only when none of the three matches can the registry
\* rule give the uri.
DiscoveryDeterminism ==
    pc = "discovered" =>
        /\ Rule1 => res = Ok(Target)
        /\ ~Rule1 /\ Rule2 => res = Ok(InsideTarget)
        /\ ~Rule1 /\ ~Rule2 /\ Rule3 => res = Ok(SuffixedTarget)
        /\ ~Rule1 /\ ~Rule2 /\ ~Rule3 =>
               /\ res.kind = "ok" => res.path = Target
               /\ RegistrySegmentRule => res = Ok(Target)

\* C1 witness: a directory holding mlem.yaml beside a suffixed file of the
\* same name; the file inside the directory wins.
DiscoveryDeterminismWitness ==
    /\ pc = "discovered"
    /\ ~Rule1 /\ Rule2 /\ Rule3
    /\ res = Ok(InsideTarget)

DiscoveryIdempotent ==
    pc = "rediscovered" => res2 = res

\* The result came from rule 3 and its own suffixed companion is a file.
SuffixedResultHasCompanion ==
    /\ ~Rule1 /\ ~Rule2 /\ Rule3
    /\ isfile(fs, SuffixedTarget \o MLEM_EXT)

\* C3 amended: discovery applied to its own result p returns p unchanged,
\* except when p came from rule 3 and p.mlem.yaml is a file: then the second
\* discovery returns p.mlem.yaml.
DiscoveryIdempotentUnlessCompanion ==
    pc = "rediscovered" =>
        IF SuffixedResultHasCompanion
        THEN res2 = Ok(res.path \o MLEM_EXT)
        ELSE res2 = res

\* C3 witness: a rule-3 result without companion is rediscovered unchanged.
DiscoveryIdempotentWitness ==
    /\ pc = "rediscovered"
    /\ ~Rule1 /\ ~Rule2 /\ Rule3
    /\ ~isfile(fs, SuffixedTarget \o MLEM_EXT)
    /\ res2 = Ok(SuffixedTarget)

\* C4: a returned path is a file of the backend and is one of uri,
\* uri/mlem.yaml and uri.mlem.yaml.
ResultIsExistingFile ==
    pc = "discovered" /\ res.kind = "ok" =>
        /\ isfile(fs, res.path)
        /\ res.path \in {Target, InsideTarget, SuffixedTarget}

\* C4 witness: the discovery of a directory returns the file inside it.
ResultIsExistingFileWitness ==
    /\ pc = "discovered"
    /\ isdir(fs, Target)
    /\ res = Ok(InsideTarget)

\* C9: the registry lookup runs exactly when the direct discovery reports
\* "not found"; the "not a valid MLEM metafile" error reaches the caller as
\* it is; MlemObjectNotFound means not found directly and not registered.
FallbackOnlyOnNotFound ==
    pc = "located" =>
        LET direct == get_meta_path(Target, fs)
        IN  /\ loc.find_object_called <=> direct.kind = "FileNotFoundError"
            /\ direct.kind = "Exception" =>
                   loc.kind = "Exception" /\ ~loc.find_object_called
            /\ loc.kind = "MlemObjectNotFound" <=>
                   (direct.kind = "FileNotFoundError" /\ registry = None)
            /\ direct.kind = "ok" => loc.kind = "ok"

\* C9 witness: the path exists, matches no rule, and a registry entry of
\* that name is there to fall back to; the error still reaches the caller.
FallbackOnlyOnNotFoundWitness ==
    /\ pc = "located"
    /\ exists(fs, Target)
    /\ registry /= None
    /\ loc.kind = "Exception"
    /\ ~loc.find_object_called

\* C10: rule 4 returns the uri only when the registry name is a whole
\* segment of it; a file matching no rule 1-3 whose path has the name only
\* inside a segment is rejected as not a valid metadata location.
RegistryRuleNeedsSegment ==
    pc = "discovered" /\ ~Rule1 /\ ~Rule2 /\ ~Rule3 =>
        /\ res.kind = "ok" => RegistrySegmentRule
        /\ isfile(fs, Target) /\ ~RegistrySegmentRule => res.kind = "Exception"

-----------------------------------------------------------------------------
(* Properties of the URI operations *)

\* The two resolutions name the same backend and the same relative path.
SameDescriptor(d, e) ==
    /\ e.kind = "ok"
    /\ e.fs.protocol = d.fs.protocol
    /\ e.path = d.path
    /\ e.fs.org = d.fs.org
    /\ e.fs.repo = d.fs.repo
    /\ e.fs.root = d.fs.root

\* C5: resolving the reconstructed URI of a resolved well-formed URI gives
\* the same protocol and relative path (and the same org, repo and revision
\* for the hosted-repo backend).
CanonicalRoundTrip ==
    pc = "reresolved" => SameDescriptor(out.d, out.d2)

\* Some protocol name of the backend, followed by "://", begins x.
CarriesPrefix(f, x) ==
    \E i \in 1..Len(f.protocol.names) :
        StartsWith(x, f.protocol.names[i] \o SCHEME_SEP)

\* C6: for a generic backend the reconstructed URI is protocol-qualified:
\* the path itself when it already carries "<p>://" for a protocol p of the
\* backend, and "<first protocol>://" + path otherwise.
QualifiedUri ==
    pc = "qualified" =>
        /\ CarriesPrefix(inp.fs, out.uri)
        /\ IF CarriesPrefix(inp.fs, inp.path)
           THEN out.uri = inp.path
           ELSE out.uri = inp.fs.protocol.names[1] \o SCHEME_SEP \o inp.path

Hosted == StartsWith(inp.repo, HTTPS_GITHUB)

\* C7: a hosted repo with a revision gives a URI holding /tree/<rev>/ and no
\* options; any other repo gives the plain join of repo and path, the same
\* for every revision, with the revision carried only as options["rev"].
RevisionEncodingAsymmetry ==
    pc = "composed" =>
        IF Hosted
        THEN inp.rev /= None =>
                 /\ Contains(out.composed.uri,
                             <<SLASH>> \o TREE \o <<SLASH>> \o inp.rev \o <<SLASH>>)
                 /\ DOMAIN out.composed.kwargs = {}
        ELSE /\ out.composed.uri = inp.repo \o <<SLASH>> \o inp.path
             /\ DOMAIN out.composed.kwargs = {"rev"}
             /\ out.composed.kwargs.rev = inp.rev
             /\ \A r \in Revs \cup {None} :
                    get_path_by_repo_path_rev(inp.repo, inp.path, r).uri
                        = out.composed.uri

\* C7 witness: a generic repo composed with a revision carries it as an option.
RevisionEncodingAsymmetryWitness ==
    /\ pc = "composed"
    /\ ~Hosted
    /\ inp.rev \in Revs
    /\ out.composed.kwargs = [rev |-> inp.rev]
    /\ ~Contains(out.composed.uri, inp.rev)

\* "https://github.com/<org>/<repo>" of a browse URL.
OrgRepoPrefix(repo) ==
    LET kw == get_github_kwargs(repo)
    IN  HTTPS_GITHUB \o <<SLASH>> \o kw.org \o <<SLASH>> \o kw.repo

\* C8: a hosted repo with a revision composes to exactly
\* <org/repo prefix>/tree/<rev>/<root_path>/<path>, also when the root path
\* of a bare repo URL is empty.
ComposeHostedExact ==
    pc = "composed" /\ Hosted /\ inp.rev /= None =>
        LET root_path == get_fs(inp.repo, None).path
        IN  /\ StartsWith(out.composed.uri,
                          OrgRepoPrefix(inp.repo) \o <<SLASH>> \o TREE
                              \o <<SLASH>> \o inp.rev \o <<SLASH>>)
            /\ out.composed.uri =
                   os_path_join_all(<<OrgRepoPrefix(inp.repo), TREE, inp.rev,
                                      root_path, inp.path>>)

====
